---- MODULE Spec2Model ----
(***************************************************************************)
(* Model of src/game_env/bpf_program.c: four BPF probes (trace_exec,       *)
(* trace_exit, sys_enter_kill, sys_exit_kill), the kill_args hash map that *)
(* joins a kill syscall's entry to its exit, and the events perf buffer.   *)
(*                                                                         *)
(* Integer widths.  TLC integers are 32-bit signed, so a u32 is kept as a  *)
(* pair <<high 16 bits, low 16 bits>> and a u64 as a pair <<high u32, low  *)
(* u32>>.  Both representations are exact.                                 *)
(***************************************************************************)
EXTENDS Integers, Sequences, FiniteSets, TLC

(* ---------------- bounds of the model ---------------- *)

\* longest sequence of perf_submit calls explored
MaxEvents == 1

(* ---------------- the environment the probes sample ---------------- *)

\* thread ids (the low half of bpf_get_current_pid_tgid) of the threads that
\* fire probes: 101 and 102 are two threads of process 101
Tids == {101, 102}

\* thread-group id (process id) of a thread
TgidOf(t) == IF t = 102 THEN 101 ELSE t

\* what the helpers can sample when a probe fires: real parent's tgid,
\* uid, gid and command name of the current task
Contexts ==
    { [ppid |-> 100, uid |-> 1000, gid |-> 50, comm |-> "agent"],
      [ppid |-> 1,   uid |-> 0,    gid |-> 0,  comm |-> "sh"] }

\* values of args->pid: a process, and -1 (every process the caller may
\* signal)
Targets == {500, -1}

\* values of args->ret: success and -ESRCH
Rets == {0, -3}

(* ---------------- fixed-width integers ---------------- *)

Limb == 65536

\* conversion of a C integer to u32 (value modulo 2^32), as two 16-bit halves
U32(n) == << (n \div Limb) % Limb, n % Limb >>

\* x >> 32 of a u64 kept as <<high u32, low u32>>
Shr32(x) == x[1]

(* ---------------- kernel helpers ---------------- *)

\* bpf_get_current_pid_tgid(): tgid << 32 | pid
bpf_get_current_pid_tgid(t) == << U32(TgidOf(t)), U32(t) >>

\* bpf_get_current_uid_gid(): gid << 32 | uid
bpf_get_current_uid_gid(ctx) == << U32(ctx.gid), U32(ctx.uid) >>

\* bpf_get_current_comm(): copy of the task's command name
bpf_get_current_comm(ctx) == ctx.comm

\* task->real_parent->tgid
real_parent_tgid(ctx) == ctx.ppid

(* ---------------- struct event_t ---------------- *)

\* struct event_t event; without the initialiser: kill_pid holds what the
\* stack held
ZeroEvent_uninitialised ==
    [pid |-> U32(0), ppid |-> U32(0), uid |-> U32(0), kill_pid |-> U32(7),
     comm |-> "", type |-> ""]

\* struct event_t event = {};
ZeroEvent ==
    [pid |-> U32(0), ppid |-> U32(0), uid |-> U32(0), kill_pid |-> U32(0),
     comm |-> "", type |-> ""]

\* the fields every probe fills, with pid taken from the low half of
\* pid_tgid (the thread id)
FillCommon_tid(ev, t, ctx, type) ==
    [ev EXCEPT !.pid  = bpf_get_current_pid_tgid(t)[2],
               !.ppid = U32(real_parent_tgid(ctx)),
               !.uid  = Shr32(bpf_get_current_uid_gid(ctx)),
               !.type = type,
               !.comm = bpf_get_current_comm(ctx)]

\* the fields every probe fills from the current context
FillCommon(ev, t, ctx, type) ==
    [ev EXCEPT !.pid  = Shr32(bpf_get_current_pid_tgid(t)),
               !.ppid = U32(real_parent_tgid(ctx)),
               !.uid  = Shr32(bpf_get_current_uid_gid(ctx)),
               !.type = type,
               !.comm = bpf_get_current_comm(ctx)]

\* the event trace_exec builds
ExecEvent(t, ctx) == FillCommon(ZeroEvent, t, ctx, "E")

\* the event trace_exit builds
ExitEvent(t, ctx) == FillCommon(ZeroEvent, t, ctx, "X")

\* sys_enter_kill without the assignment of args->pid
KillEvent_no_target(t, ctx, target) == FillCommon(ZeroEvent, t, ctx, "K")

\* the event sys_enter_kill builds
KillEvent(t, ctx, target) ==
    [FillCommon(ZeroEvent, t, ctx, "K") EXCEPT !.kill_pid = U32(target)]

(* ---------------- state ---------------- *)

VARIABLES
    kill_args,   \* BPF_HASH(kill_args, u64, struct event_t): key -> event
    events,      \* BPF_PERF_OUTPUT(events): the records the buffer accepted
    submitted,   \* history: every record handed to events.perf_submit
    entered,     \* history: per thread, the targets of its kill-entries since
                 \* its last kill-exit (the two most recent ones)
    sampled,     \* history: per thread, the context its latest kill-entry
                 \* since its last kill-exit ran in
    last         \* history: the probe that fired last

vars == << kill_args, events, submitted, entered, sampled, last >>

NoContext == [ppid |-> 0, uid |-> 0, gid |-> 0, comm |-> ""]

\* the record of a probe firing: the probe, the thread, its argument
\* (args->pid or args->ret), the context the probe ran in, whether
\* perf_submit accepted the record, the value the probe returned, and, before
\* the probe ran, the thread's entered targets and the number of records
\* submitted.  own is set by a kill-exit alone: the syscall invocation that
\* fired it is the one whose kill-entry fired last on the thread.
Fired(op, t, arg, ctx, ok, rc) ==
    [op |-> op, tid |-> t, arg |-> arg, ctx |-> ctx, ok |-> ok, rc |-> rc,
     prev |-> entered[t], nsub |-> Len(submitted), own |-> FALSE]

Init ==
    /\ kill_args = << >>
    /\ events = << >>
    /\ submitted = << >>
    /\ entered = [t \in Tids |-> << >>]
    /\ sampled = [t \in Tids |-> NoContext]
    /\ last = [op |-> "init", tid |-> 0, arg |-> 0, ctx |-> NoContext,
               ok |-> TRUE, rc |-> 0, prev |-> << >>, nsub |-> 0,
               own |-> FALSE]

(* ---------------- map and perf buffer primitives ---------------- *)

\* kill_args.lookup(&key): a pointer to the entry, or NULL
NULL == [pid |-> << >>, ppid |-> << >>, uid |-> << >>, kill_pid |-> << >>,
         comm |-> "", type |-> "NULL"]

\* kill_args.lookup_or_init(&key, &zero): never NULL
lookup_or_init(map, key) == IF key \in DOMAIN map THEN map[key] ELSE ZeroEvent

lookup(map, key) == IF key \in DOMAIN map THEN map[key] ELSE NULL

\* kill_args.insert(&key, &event): insert unless the key is present
insert_if_absent(map, key, ev) ==
    IF key \in DOMAIN map THEN map
    ELSE [k \in DOMAIN map \cup {key} |-> IF k = key THEN ev ELSE map[k]]

\* kill_args.update(&key, &event): insert or overwrite
update(map, key, ev) ==
    [k \in DOMAIN map \cup {key} |-> IF k = key THEN ev ELSE map[k]]

\* the delete left out
delete_nothing(map, key) == map

\* kill_args.delete(&key)
delete(map, key) == [k \in DOMAIN map \ {key} |-> map[k]]

\* events.perf_submit(ctx, &event, sizeof(event)): ok is FALSE when the
\* buffer is full and the record is dropped
perf_submit(ev, ok) ==
    /\ Len(submitted) < MaxEvents
    /\ submitted' = Append(submitted, ev)
    /\ events' = IF ok THEN Append(events, ev) ELSE events

(* ---------------- the probes ---------------- *)

\* the key reduced to the process id: pid_tgid >> 32
pid_tgid_process(t) == << U32(0), Shr32(bpf_get_current_pid_tgid(t)) >>

\* u64 pid_tgid = bpf_get_current_pid_tgid(): the key of kill_args
pid_tgid(t) == bpf_get_current_pid_tgid(t)

\* if (args->ret <= 0)
kill_succeeded_or_errno(ret) == ret <= 0

\* the success test left out
kill_succeeded_always(ret) == TRUE

\* if (args->ret == 0)
kill_succeeded(ret) == ret = 0

trace_exec(t, ctx, ok) ==
    /\ perf_submit(ExecEvent(t, ctx), ok)
    /\ last' = Fired("exec", t, 0, ctx, ok, 0)
    /\ UNCHANGED << kill_args, entered, sampled >>

\* trace_exit that also drops the exiting thread's entry of kill_args
trace_exit_cleans(t, ctx, ok) ==
    /\ perf_submit(ExitEvent(t, ctx), ok)
    /\ kill_args' = [k \in DOMAIN kill_args \ {bpf_get_current_pid_tgid(t)}
                        |-> kill_args[k]]
    /\ last' = Fired("exit", t, 0, ctx, ok, 0)
    /\ UNCHANGED << entered, sampled >>

trace_exit(t, ctx, ok) ==
    /\ perf_submit(ExitEvent(t, ctx), ok)
    /\ last' = Fired("exit", t, 0, ctx, ok, 0)
    /\ UNCHANGED << kill_args, entered, sampled >>

\* sys_enter_kill that also submits the event it stores
sys_enter_kill_submits(t, ctx, target) ==
    /\ kill_args' = update(kill_args, pid_tgid(t), KillEvent(t, ctx, target))
    /\ perf_submit(KillEvent(t, ctx, target), TRUE)
    /\ entered' = [entered EXCEPT ![t] =
                      IF @ = << >> THEN << target >>
                                   ELSE << @[Len(@)], target >>]
    /\ sampled' = [sampled EXCEPT ![t] = ctx]
    /\ last' = Fired("kill_enter", t, target, ctx, TRUE, 0)

sys_enter_kill(t, ctx, target) ==
    /\ kill_args' = update(kill_args, pid_tgid(t), KillEvent(t, ctx, target))
    /\ entered' = [entered EXCEPT ![t] =
                      IF @ = << >> THEN << target >>
                                   ELSE << @[Len(@)], target >>]
    /\ sampled' = [sampled EXCEPT ![t] = ctx]
    /\ last' = Fired("kill_enter", t, target, ctx, TRUE, 0)
    /\ UNCHANGED << events, submitted >>

\* what a kill-exit leaves in the histories.  ctx is the context the probe
\* runs in; the probe samples nothing of it, and it is recorded only when the
\* probe hands a record to perf_submit.  own tells whether the syscall
\* invocation that fired the probe is the one whose kill-entry fired last on
\* the thread; it is FALSE when no kill-entry fired since the last kill-exit
\* (the entry tracepoint of the invocation was not seen)
ExitFired(t, ret, ok, ctx, own) ==
    /\ own => entered[t] # << >>
    /\ entered' = [entered EXCEPT ![t] = << >>]
    /\ sampled' = [sampled EXCEPT ![t] = NoContext]
    /\ last' = [Fired("kill_exit", t, ret,
                       IF submitted' # submitted THEN ctx ELSE NoContext,
                       ok, 0)
                   EXCEPT !.own = own]

\* sys_exit_kill with the delete inside the success branch
sys_exit_kill_delete_on_success(t, ret, ok, ctx, own) ==
    LET stored_event == lookup(kill_args, pid_tgid(t))
    IN  /\ IF stored_event = NULL
             THEN /\ ok
                  /\ UNCHANGED << kill_args, events, submitted >>
             ELSE IF kill_succeeded(ret)
                    THEN /\ perf_submit(stored_event, ok)
                         /\ kill_args' = delete(kill_args, pid_tgid(t))
                    ELSE ok /\ UNCHANGED << kill_args, events, submitted >>
        /\ ExitFired(t, ret, ok, ctx, own)

\* sys_exit_kill that returns as soon as perf_submit reports a drop
sys_exit_kill_returns_on_drop(t, ret, ok, ctx, own) ==
    LET stored_event == lookup(kill_args, pid_tgid(t))
    IN  /\ IF stored_event = NULL
             THEN /\ ok
                  /\ UNCHANGED << kill_args, events, submitted >>
             ELSE IF kill_succeeded(ret)
                    THEN /\ perf_submit(stored_event, ok)
                         /\ kill_args' = IF ok THEN delete(kill_args, pid_tgid(t))
                                               ELSE kill_args
                    ELSE /\ ok
                         /\ UNCHANGED << events, submitted >>
                         /\ kill_args' = delete(kill_args, pid_tgid(t))
        /\ ExitFired(t, ret, ok, ctx, own)

\* sys_exit_kill that fills the stored event again from the context at exit
sys_exit_kill_resamples(t, ret, ok, ctx, own) ==
    LET stored_event == lookup(kill_args, pid_tgid(t))
    IN  /\ IF stored_event = NULL
             THEN /\ ok
                  /\ UNCHANGED << kill_args, events, submitted >>
             ELSE /\ IF kill_succeeded(ret)
                       THEN perf_submit(FillCommon(stored_event, t, ctx, "K"),
                                        ok)
                       ELSE ok /\ UNCHANGED << events, submitted >>
                  /\ kill_args' = delete(kill_args, pid_tgid(t))
        /\ ExitFired(t, ret, ok, ctx, own)

sys_exit_kill(t, ret, ok, ctx, own) ==
    LET stored_event == lookup(kill_args, pid_tgid(t))
    IN  /\ IF stored_event = NULL
             THEN /\ ok
                  /\ UNCHANGED << kill_args, events, submitted >>
             ELSE /\ IF kill_succeeded(ret)
                       THEN perf_submit(stored_event, ok)
                       ELSE ok /\ UNCHANGED << events, submitted >>
                  /\ kill_args' = delete(kill_args, pid_tgid(t))
        /\ ExitFired(t, ret, ok, ctx, own)

Next ==
    \/ \E t \in Tids, ctx \in Contexts, ok \in BOOLEAN : trace_exec(t, ctx, ok)
    \/ \E t \in Tids, ctx \in Contexts, ok \in BOOLEAN : trace_exit(t, ctx, ok)
    \/ \E t \in Tids, ctx \in Contexts, target \in Targets :
          sys_enter_kill(t, ctx, target)
    \/ \E t \in Tids, ret \in Rets, ok \in BOOLEAN, ctx \in Contexts,
          own \in BOOLEAN : sys_exit_kill(t, ret, ok, ctx, own)

Spec == Init /\ [][Next]_vars

\* the program when every thread's kill-exit tracepoint keeps firing
LiveSpec ==
    /\ Spec
    /\ \A t \in Tids :
          WF_vars(\E ret \in Rets, ok \in BOOLEAN, ctx \in Contexts,
                     own \in BOOLEAN : sys_exit_kill(t, ret, ok, ctx, own))

(* ---------------- vocabulary of the properties ---------------- *)

\* the record handed to perf_submit most recently
Newest == submitted[Len(submitted)]

\* the probe that fired last handed exactly n records to perf_submit
Published(n) == Len(submitted) = last.nsub + n

\* the target of the most recent kill-entry in a non-empty history h
LastTarget(h) == h[Len(h)]

\* the step appends exactly the record r to the submitted records, or none
Publishes(r) == submitted' = Append(submitted, r)

PublishesNothing == submitted' = submitted /\ events' = events

(* ---------------- C1 ---------------- *)

\* C1 (P2, kill join correctness): a kill-exit with return code 0 on a
\* thread whose previous kill probe was a kill-entry with target T publishes
\* exactly one record; it has kind 'K', kill_pid = T (as a u32) and pid = the
\* thread's process id, whatever this and the other threads did before.
C1_KillJoin ==
    (last.op = "kill_exit" /\ last.arg = 0 /\ last.prev # << >>) =>
        /\ Published(1)
        /\ Newest.type = "K"
        /\ Newest.kill_pid = U32(LastTarget(last.prev))
        /\ Newest.pid = U32(TgidOf(last.tid))

\* thread 102 completed kill(500) successfully while thread 101 of the same
\* process has an entry for kill(-1) in flight
C1_Witness ==
    /\ last.op = "kill_exit" /\ last.arg = 0 /\ last.tid = 102
    /\ last.prev = << 500 >>
    /\ entered[101] = << -1 >>
    /\ Published(1) /\ Newest.kill_pid = U32(500)

(* ---------------- C2 ---------------- *)

\* C2 (P3, failed kill suppression): a kill-exit with a non-zero return code
\* on a thread whose previous kill probe was a kill-entry publishes no record
\* and leaves no entry under the thread's key; and a successful kill-exit
\* that follows a single kill-entry since the thread's previous kill-exit
\* (failed or not) publishes that kill-entry's own target.
C2_FailedKillSuppressed ==
    /\ (last.op = "kill_exit" /\ last.arg # 0 /\ last.prev # << >>) =>
           /\ Published(0)
           /\ pid_tgid(last.tid) \notin DOMAIN kill_args
    /\ (last.op = "kill_exit" /\ last.arg = 0 /\ Len(last.prev) = 1) =>
           /\ Published(1)
           /\ Newest.kill_pid = U32(last.prev[1])

\* thread 101's kill(500) failed with -ESRCH and nothing has been published
C2_Witness ==
    /\ last.op = "kill_exit" /\ last.arg = -3 /\ last.tid = 101
    /\ last.prev = << 500 >>
    /\ submitted = << >>

(* ---------------- C3 ---------------- *)

\* C3: every step that hands a 'K' record to perf_submit is a kill-exit whose
\* return code is 0, and no step changes the records handed over before; so
\* every published 'K' record was published by a successful kill.
C3_KillOnlyOnSuccess ==
    [][ /\ Len(submitted') >= Len(submitted)
        /\ SubSeq(submitted', 1, Len(submitted)) = submitted
        /\ \A i \in (Len(submitted) + 1) .. Len(submitted') :
              submitted'[i].type = "K" =>
                 last'.op = "kill_exit" /\ last'.arg = 0 ]_vars

\* a failed kill on a thread after a 'K' record has been published
C3_Witness ==
    /\ Len(submitted) = 1 /\ submitted[1].type = "K"
    /\ last.op = "kill_exit" /\ last.arg # 0 /\ last.prev # << >>

(* ---------------- C4 ---------------- *)

\* C4 (P5, key isolation): for distinct threads A and B with B between its
\* kill-entry and its kill-exit, B's entry is stored under B's key with B's own
\* target whatever A's probes did; and A's kill-exit after A's kill-entry
\* publishes A's own target if and only if A's own return code is 0.
C4_KeyIsolation ==
    \A A, B \in Tids :
        (A # B /\ last.tid = A /\ entered[B] # << >>) =>
            /\ pid_tgid(B) \in DOMAIN kill_args
            /\ kill_args[pid_tgid(B)].kill_pid = U32(LastTarget(entered[B]))
            /\ (last.op = "kill_exit" /\ last.prev # << >>) =>
                  IF last.arg = 0
                    THEN /\ Published(1)
                         /\ Newest.kill_pid = U32(LastTarget(last.prev))
                    ELSE Published(0)

\* A = 101 entered kill(500), B = 102 entered kill(-1), then A's kill failed
\* while B's entry is still in flight
C4_Witness ==
    /\ last.op = "kill_exit" /\ last.tid = 101 /\ last.arg # 0
    /\ last.prev = << 500 >>
    /\ entered[102] = << -1 >>

(* ---------------- C5 ---------------- *)

\* C5 (P4, exit without entry is inert): a kill-exit on a thread whose key has
\* no entry in kill_args hands nothing to perf_submit, returns 0 and leaves
\* kill_args as it was, whatever the return code.
C5_ExitWithoutEntryInert ==
    [][ (last'.op = "kill_exit"
           /\ pid_tgid(last'.tid) \notin DOMAIN kill_args) =>
          /\ PublishesNothing
          /\ kill_args' = kill_args
          /\ last'.rc = 0 ]_vars

\* thread 102 fired kill-exit(0) with no kill-entry before it, while thread
\* 101 has an entry in flight
C5_Witness ==
    /\ last.op = "kill_exit" /\ last.tid = 102 /\ last.arg = 0
    /\ last.prev = << >>
    /\ entered[101] # << >>
    /\ pid_tgid(101) \in DOMAIN kill_args

(* ---------------- C6 ---------------- *)

\* C6 (P6, idempotent overwrite): a kill-entry with target T2 on a thread
\* whose previous kill probe was a kill-entry with target T1 leaves under the
\* thread's key the entry built by the second call; the next kill-exit with
\* return code 0 publishes exactly one record, with kill_pid = T2 (as a u32)
\* and, when T1 # T2, not T1.
C6_Overwrite ==
    [][ /\ (last'.op = "kill_enter" /\ entered[last'.tid] # << >>) =>
              LET e == kill_args'[pid_tgid(last'.tid)]
              IN  /\ pid_tgid(last'.tid) \in DOMAIN kill_args'
                  /\ e.type = "K"
                  /\ e.kill_pid = U32(last'.arg)
                  /\ e.ppid = U32(last'.ctx.ppid)
                  /\ e.comm = last'.ctx.comm
        /\ (last'.op = "kill_exit" /\ last'.arg = 0
               /\ Len(entered[last'.tid]) = 2) =>
              \E r \in {kill_args[k] : k \in DOMAIN kill_args} :
                  /\ Publishes(r)
                  /\ r.kill_pid = U32(entered[last'.tid][2])
                  /\ entered[last'.tid][1] # entered[last'.tid][2] =>
                        r.kill_pid # U32(entered[last'.tid][1]) ]_vars

\* thread 101 entered kill(500), then kill(-1), then its kill-exit(0)
\* published the record of kill(-1)
C6_Witness ==
    /\ last.op = "kill_exit" /\ last.tid = 101 /\ last.arg = 0
    /\ last.prev = << 500, -1 >>
    /\ Published(1) /\ Newest.kill_pid = U32(-1)

(* ---------------- C7 ---------------- *)

\* C7 (P1, exec/exit purity): a 'process created' trigger publishes exactly
\* one record, of kind 'E', and a 'process exited' trigger exactly one, of kind
\* 'X'; the record has kill_pid zero and the pid, ppid, uid and comm of the
\* context that fired the trigger.
C7_ExecExitPurity ==
    (last.op \in {"exec", "exit"}) =>
        /\ Published(1)
        /\ Newest.type = (IF last.op = "exec" THEN "E" ELSE "X")
        /\ Newest.kill_pid = U32(0)
        /\ Newest.pid = U32(TgidOf(last.tid))
        /\ Newest.ppid = U32(last.ctx.ppid)
        /\ Newest.uid = U32(last.ctx.uid)
        /\ Newest.comm = last.ctx.comm

(* ---------------- C8 ---------------- *)

\* C8: every record a step hands to perf_submit is either an 'E' or 'X' record
\* with kill_pid zero or a 'K' record whose kill_pid is the target (as a u32)
\* of the publishing thread's latest kill-entry; every entry of kill_args is
\* a 'K' record whose kill_pid is the target of its thread's latest
\* kill-entry; and the perf buffer holds only records handed to perf_submit.
C8_KillTargetIffKill ==
    [][ /\ \A i \in (Len(submitted) + 1) .. Len(submitted') :
              LET r == submitted'[i]
              IN  \/ r.type \in {"E", "X"} /\ r.kill_pid = U32(0)
                  \/ /\ r.type = "K"
                     /\ entered[last'.tid] # << >>
                     /\ r.kill_pid = U32(LastTarget(entered[last'.tid]))
        /\ \A k \in DOMAIN kill_args' :
              /\ kill_args'[k].type = "K"
              /\ \E t \in Tids :
                    /\ k = pid_tgid(t)
                    /\ entered'[t] # << >>
                    /\ kill_args'[k].kill_pid = U32(LastTarget(entered'[t]))
        /\ \A i \in DOMAIN events' :
              \E j \in DOMAIN submitted' : events'[i] = submitted'[j] ]_vars

\* an 'X' record with kill_pid zero has been published while kill_args holds
\* a 'K' record for kill(-1)
C8_Witness ==
    /\ Len(submitted) = 1
    /\ submitted[1].type = "X" /\ submitted[1].kill_pid = U32(0)
    /\ \E k \in DOMAIN kill_args :
          kill_args[k].type = "K" /\ kill_args[k].kill_pid = U32(-1)

(* ---------------- C9 ---------------- *)

\* C9: after a kill-exit on a thread, kill_args has no entry under the
\* thread's key, whether or not it held one and whatever the return code.
C9_AbsentAfterExit ==
    (last.op = "kill_exit") => pid_tgid(last.tid) \notin DOMAIN kill_args

\* thread 102's kill-exit found the entry of its second kill-entry and
\* failed, and the other thread's entry is still stored
C9_Witness ==
    /\ last.op = "kill_exit" /\ last.tid = 102 /\ last.arg = -3
    /\ last.prev = << -1, 500 >>
    /\ pid_tgid(102) \notin DOMAIN kill_args
    /\ pid_tgid(101) \in DOMAIN kill_args

(* ---------------- C10 ---------------- *)

\* C10: a kill-entry hands nothing to perf_submit and leaves the perf buffer
\* as it was; its only effect is that kill_args maps the caller's key to the
\* 'K' record built from the call (the caller's process id and the target),
\* every other key keeping its entry.
C10_EntryNeverPublishes ==
    [][ (last'.op = "kill_enter") =>
          LET key == pid_tgid(last'.tid)
          IN  /\ PublishesNothing
              /\ DOMAIN kill_args' = DOMAIN kill_args \cup {key}
              /\ \A k \in DOMAIN kill_args \ {key} :
                    kill_args'[k] = kill_args[k]
              /\ kill_args'[key].type = "K"
              /\ kill_args'[key].kill_pid = U32(last'.arg)
              /\ kill_args'[key].pid = U32(TgidOf(last'.tid)) ]_vars

\* thread 101 entered kill(-1) from the absent state after a record had been
\* published, and the published records are still that one record
C10_Witness ==
    /\ last.op = "kill_enter" /\ last.tid = 101 /\ last.arg = -1
    /\ last.prev = << >>
    /\ Len(submitted) = 1 /\ last.nsub = 1
    /\ kill_args[pid_tgid(101)].kill_pid = U32(-1)

(* ---------------- C11 ---------------- *)

\* C11: a kill-exit hands a record to perf_submit only when the syscall
\* invocation that fired it is the one whose kill-entry stored the record: a
\* kill-exit of an invocation whose own kill-entry was not seen publishes
\* nothing, also when an earlier invocation left an entry behind.
C11_OnlyOwnInvocation ==
    (last.op = "kill_exit" /\ ~last.own) => Published(0)

(* ---------------- C12 ---------------- *)

\* C12: kill_args holds entries only under thread keys, and never more of
\* them than there are threads that fired a kill-entry and no kill-exit
\* since; a thread that enters kill again without a kill-exit in between
\* still accounts for one entry.
C12_OrphansBounded ==
    /\ DOMAIN kill_args \subseteq {bpf_get_current_pid_tgid(t) : t \in Tids}
    /\ Cardinality(DOMAIN kill_args)
          <= Cardinality({t \in Tids : entered[t] # << >>})

\* thread 101 entered kill twice with no kill-exit in between, thread 102 is
\* not in a kill, and kill_args holds one entry
C12_Witness ==
    /\ last.op = "kill_enter" /\ last.tid = 101
    /\ Len(entered[101]) = 2
    /\ entered[102] = << >>
    /\ Cardinality(DOMAIN kill_args) = 1

(* ---------------- C13 ---------------- *)

\* C13: a probe whose perf_submit drops the record still returns 0, has
\* called perf_submit once, leaves the perf buffer as it was, and leaves
\* kill_args as a successful publish would: unchanged by trace_exec and
\* trace_exit, without the caller's entry after a kill-exit.
C13_DropAbsorbed ==
    [][ (~last'.ok) =>
          /\ last'.rc = 0
          /\ Len(submitted') = Len(submitted) + 1
          /\ events' = events
          /\ kill_args' =
                IF last'.op = "kill_exit"
                  THEN [k \in DOMAIN kill_args
                               \ {bpf_get_current_pid_tgid(last'.tid)}
                          |-> kill_args[k]]
                  ELSE kill_args ]_vars

\* thread 101's kill-exit(0) found its entry, the perf buffer dropped the
\* record, and the entry is gone
C13_Witness ==
    /\ last.op = "kill_exit" /\ last.tid = 101 /\ last.arg = 0
    /\ ~last.ok
    /\ last.prev # << >>
    /\ Len(submitted) = 1 /\ events = << >>
    /\ bpf_get_current_pid_tgid(101) \notin DOMAIN kill_args

(* ---------------- C14 ---------------- *)

\* C14: a kill-entry or kill-exit fired by a thread changes kill_args at most
\* under the key that is the thread's own identity (its pid_tgid); every
\* entry under another key is left as it was.
C14_SingleWriterPerKey ==
    [][ (last'.op \in {"kill_enter", "kill_exit"}) =>
          LET own_key == bpf_get_current_pid_tgid(last'.tid)
          IN  \A k \in (DOMAIN kill_args \cup DOMAIN kill_args') \ {own_key} :
                  /\ k \in DOMAIN kill_args
                  /\ k \in DOMAIN kill_args'
                  /\ kill_args'[k] = kill_args[k] ]_vars

\* thread 102 overwrote its own entry while thread 101's entry for the same
\* target stays stored
C14_Witness ==
    /\ last.op = "kill_enter" /\ last.tid = 102 /\ last.arg = -1
    /\ last.prev = << 500 >>
    /\ entered[101] = << 500 >>
    /\ kill_args[bpf_get_current_pid_tgid(101)].kill_pid = U32(500)
    /\ kill_args[bpf_get_current_pid_tgid(102)].kill_pid = U32(-1)

(* ---------------- C15 ---------------- *)

\* C15: trace_exec and trace_exit leave kill_args as it was; an entry of the
\* thread that fired them stays stored.
C15_ExecExitStateless ==
    [][ (last'.op \in {"exec", "exit"}) => kill_args' = kill_args ]_vars

\* a process-exit event of thread 101 fired while its kill(-1) is in flight,
\* and the entry is still stored
C15_Witness ==
    /\ last.op = "exit" /\ last.tid = 101
    /\ entered[101] = << -1 >>
    /\ bpf_get_current_pid_tgid(101) \in DOMAIN kill_args
    /\ kill_args[bpf_get_current_pid_tgid(101)].kill_pid = U32(-1)

(* ---------------- C16 ---------------- *)

\* C16: the record a kill-exit with return code 0 publishes is the record
\* stored by the thread's latest kill-entry, field for field: kill_pid is that
\* kill-entry's target and pid, ppid, uid and comm are what that kill-entry
\* sampled from the context it ran in, whatever the context at kill-exit.
C16_PublishedIsStored ==
    [][ (last'.op = "kill_exit" /\ last'.arg = 0
           /\ entered[last'.tid] # << >>) =>
          LET t == last'.tid
              e == kill_args[bpf_get_current_pid_tgid(t)]
          IN  /\ bpf_get_current_pid_tgid(t) \in DOMAIN kill_args
              /\ Publishes(e)
              /\ e.type = "K"
              /\ e.kill_pid = U32(LastTarget(entered[t]))
              /\ e.pid = U32(TgidOf(t))
              /\ e.ppid = U32(sampled[t].ppid)
              /\ e.uid = Shr32(bpf_get_current_uid_gid(sampled[t]))
              /\ e.comm = sampled[t].comm ]_vars

\* thread 101 entered kill as "agent" with parent 100 and left it as "sh"
\* with parent 1; the published record has the values of the entry
C16_Witness ==
    /\ last.op = "kill_exit" /\ last.tid = 101 /\ last.arg = 0
    /\ last.prev # << >>
    /\ Published(1)
    /\ last.ctx.comm = "sh" /\ last.ctx.ppid = 1
    /\ Newest.comm = "agent" /\ Newest.ppid = U32(100)

(* ---------------- C17 ---------------- *)

\* C17: when no thread is between a kill-entry and its kill-exit, kill_args
\* is empty; and when every thread's kill-exit keeps firing, an entry stored
\* under a thread's key is eventually removed.
C17_NothingOutlivesSyscall ==
    /\ []((\A t \in Tids : entered[t] = << >>) => kill_args = << >>)
    /\ \A t \in Tids :
          (bpf_get_current_pid_tgid(t) \in DOMAIN kill_args)
             ~> (bpf_get_current_pid_tgid(t) \notin DOMAIN kill_args)

\* both threads have completed a kill (one published, one failed) and
\* kill_args is empty
C17_Witness ==
    /\ last.op = "kill_exit" /\ last.prev # << >> /\ last.arg # 0
    /\ Len(submitted) = 1 /\ submitted[1].type = "K"
    /\ \A t \in Tids : entered[t] = << >>
    /\ kill_args = << >>

(* ---------------- C18 ---------------- *)

\* C18: every entry of kill_args has kind 'K' and pid equal to the upper 32
\* bits of its key, and the record a kill-exit publishes has kind 'K' and the
\* process id of the thread that fired the kill-exit.
C18_PidIsKeyUpperHalf ==
    /\ \A k \in DOMAIN kill_args :
          kill_args[k].type = "K" /\ kill_args[k].pid = Shr32(k)
    /\ (last.op = "kill_exit" /\ Published(1)) =>
          Newest.type = "K" /\ Newest.pid = U32(TgidOf(last.tid))

\* thread 101's kill-exit published a record with pid 101 while thread 102
\* (thread id 102, process 101) has an entry stored with pid 101
C18_Witness ==
    /\ last.op = "kill_exit" /\ last.tid = 101 /\ Published(1)
    /\ Newest.pid = U32(101)
    /\ bpf_get_current_pid_tgid(102) \in DOMAIN kill_args
    /\ kill_args[bpf_get_current_pid_tgid(102)].pid = U32(101)

====
